---- MODULE Spec2Model ----
(***************************************************************************)
(* Model of Tree<T> (src/tree.h) with T = std::string.                     *)
(*                                                                         *)
(* A std::string is a sequence of character codes (ASCII).  A Node<T>* is  *)
(* an address: an index into heap, the sequence of all nodes ever          *)
(* allocated with new; nullptr is 0.  nodesMap is the registry             *)
(* unordered_map<string, Node<T>*>.                                        *)
(***************************************************************************)
EXTENDS Integers, Sequences, FiniteSets, TLC

VARIABLES
    heap,       \* heap[a]: the Node object at address a: [id, data, children]
    nodesMap,   \* Tree::nodesMap: function from the ids present to addresses
    root,       \* Tree::root: an address, or nullptr
    released,   \* released[a]: how many times delete was applied to address a
    alive,      \* FALSE once ~Tree has run
    last,       \* the latest construction call and what the registry held before it
    nCalls,     \* number of construction calls made so far
    used,       \* every id ever passed to createRoot / addNode
    pc,         \* playGame: "idle", "AtNode" (blocked in getline), "Terminated"
    current,    \* playGame's local variable current
    linesLeft,  \* lines the session's input stream still holds before end-of-file
    input,      \* what getline delivered in the latest step, if it was called
    out         \* what the latest step wrote to cout

vars == <<heap, nodesMap, root, released, alive, last, nCalls, used,
          pc, current, linesLeft, input, out>>

(*************************** bounds **************************************)
MaxCalls == 3
MaxPrintCalls == 3
MaxLines == 2
MaxFairCalls == 2

(*************************** strings *************************************)
nullptr == 0

\* The string literals the model uses, as character codes.
S_1     == <<49>>
S_2     == <<50>>
S_3     == <<51>>
S_01    == <<48, 49>>
S_10    == <<49, 48>>
S_apple == <<97, 112, 112, 108, 101>>
S_1a    == <<49, 97>>
S_x     == <<120>>
S_y     == <<121>>
\* LLONG_MAX, LLONG_MAX + 1 and 10^19 in decimal
S_llmax == <<57,50,50,51,51,55,50,48,51,54,56,53,52,55,55,53,56,48,55>>
S_llmax1 == <<57,50,50,51,51,55,50,48,51,54,56,53,52,55,55,53,56,48,56>>
S_1e19  == <<49,48,48,48,48,48,48,48,48,48,48,48,48,48,48,48,48,48,48,48>>
\* INT_MAX in decimal
S_intmax == <<50,49,52,55,52,56,51,54,52,55>>

isdigit(c) == c >= 48 /\ c <= 57
isspace(c) == c \in {9, 10, 11, 12, 13, 32}

\* T() for T = std::string
DefaultData == << >>

\* std::string operator< (lexicographic on character codes)
RECURSIVE StrLessFrom(_, _, _)
StrLessFrom(a, b, i) ==
    IF i > Len(b) THEN FALSE
    ELSE IF i > Len(a) THEN TRUE
    ELSE IF a[i] # b[i] THEN a[i] < b[i]
    ELSE StrLessFrom(a, b, i + 1)

StrLess(a, b) == StrLessFrom(a, b, 1)

RECURSIVE TrimLeft(_)
TrimLeft(s) ==
    IF Len(s) > 0 /\ isspace(Head(s)) THEN TrimLeft(Tail(s)) ELSE s

RECURSIVE TrimRight(_)
TrimRight(s) ==
    IF Len(s) > 0 /\ isspace(s[Len(s)]) THEN TrimRight(SubSeq(s, 1, Len(s) - 1))
    ELSE s

trim_copy(s) == TrimRight(TrimLeft(s))

AllDigits(s) == \A i \in 1..Len(s) : isdigit(s[i])

(*************************** registry ************************************)
Ids    == {S_1, S_2, S_3}
Values == {S_x, S_y}
\* the payload of the graphs that sessions are played on: " x"
PlayValues == {<<32, 120>>}

NoInput == [read |-> "none", line |-> << >>]

NoCall == [op |-> "none", parent |-> << >>, id |-> << >>, value |-> << >>,
           before |-> {}]

Node(nodeID, value) == [id |-> nodeID, data |-> value, children |-> << >>]

Present(id) == id \in DOMAIN nodesMap

findNode(id) == IF id \in DOMAIN nodesMap THEN nodesMap[id] ELSE nullptr

\* nodesMap[id] = node, on a map m
MapPut(m, id, node) ==
    [k \in (DOMAIN m) \cup {id} |-> IF k = id THEN node ELSE m[k]]

Init ==
    /\ heap = << >>
    /\ nodesMap = << >>
    /\ root = nullptr
    /\ released = << >>
    /\ alive = TRUE
    /\ last = NoCall
    /\ nCalls = 0
    /\ used = {}
    /\ pc = "idle"
    /\ current = nullptr
    /\ linesLeft = 0
    /\ input = NoInput
    /\ out = << >>

\* A member function other than playGame runs: no playGame call is active, and
\* `text` is what it writes to cout.
Returns(text) ==
    /\ pc' = "idle"
    /\ current' = nullptr
    /\ linesLeft' = 0
    /\ input' = NoInput
    /\ out' = text

\* EnsureNode with the lookup dropped: a node is allocated on every call
EnsureNodeAlwaysNew(h, m, id, value) ==
    [heap |-> Append(h, [id |-> id, data |-> value, children |-> << >>]),
     map  |-> [k \in (DOMAIN m) \cup {id} |-> IF k = id THEN Len(h) + 1 ELSE m[k]],
     node |-> Len(h) + 1]

\* EnsureNode with the insertion dropped: a new node never enters the registry
EnsureNodeNoInsert(h, m, id, value) ==
    IF id \in DOMAIN m
    THEN [heap |-> h, map |-> m, node |-> m[id]]
    ELSE [heap |-> Append(h, [id |-> id, data |-> value, children |-> << >>]),
          map  |-> m,
          node |-> Len(h) + 1]

\* The heap and registry after "find id, or new Node(id, value) and insert".
\* Result: [heap, map, node].
EnsureNode(h, m, id, value) ==
    IF id \in DOMAIN m
    THEN [heap |-> h, map |-> m, node |-> m[id]]
    ELSE [heap |-> Append(h, Node(id, value)),
          map  |-> MapPut(m, id, Len(h) + 1),
          node |-> Len(h) + 1]

\* RootData that keeps the payload of a node that already existed
RootDataKeep(existed, old, value) == IF existed THEN old ELSE value

\* createRoot's treatment of the payload of the node it found or made
RootData(existed, old, value) == value

CreateRoot(pool, values, max) ==
    \E id \in pool, value \in values :
        /\ alive /\ pc # "AtNode" /\ nCalls < max
        /\ LET e == EnsureNode(heap, nodesMap, id, value)
               node == e.node
           IN /\ heap' = [e.heap EXCEPT ![node].data =
                              RootData(Present(id), e.heap[node].data, value)]
              /\ nodesMap' = e.map
              /\ root' = node
        /\ last' = [op |-> "createRoot", parent |-> << >>, id |-> id,
                    value |-> value, before |-> DOMAIN nodesMap]
        /\ nCalls' = nCalls + 1
        /\ used' = used \cup {id}
        /\ Returns(<< >>)
        /\ UNCHANGED <<released, alive>>

\* ChildData that lets the latest value win
ChildDataOverwrite(old, value) == value

\* ChildData that fills in a payload that is still the default one
ChildDataFillDefault(old, value) == IF old = DefaultData THEN value ELSE old

\* addNode's treatment of the payload of a child found in the registry
ChildData(old, value) == old

\* LinkChild without the duplicate scan
LinkChildAlways(children, child) == Append(children, child)

\* LinkChild that puts a new child in front
LinkChildInFront(children, child) ==
    IF \E i \in 1..Len(children) : children[i] = child
    THEN children
    ELSE <<child>> \o children

\* "if (!already) parent->children.push_back(child)"
LinkChild(children, child) ==
    IF \E i \in 1..Len(children) : children[i] = child
    THEN children
    ELSE Append(children, child)

AddNode(pool, values, max) ==
    \E parentID \in pool, childID \in pool, value \in values :
        /\ alive /\ pc # "AtNode" /\ nCalls < max
        /\ LET p == EnsureNode(heap, nodesMap, parentID, DefaultData)
               parent == p.node
               c == EnsureNode(p.heap, p.map, childID, value)
               child == c.node
               h1 == IF childID \in DOMAIN p.map
                     THEN [c.heap EXCEPT ![child].data = ChildData(@, value)]
                     ELSE c.heap
           IN /\ heap' = [h1 EXCEPT ![parent].children = LinkChild(@, child)]
              /\ nodesMap' = c.map
        /\ last' = [op |-> "addNode", parent |-> parentID, id |-> childID,
                    value |-> value, before |-> DOMAIN nodesMap]
        /\ nCalls' = nCalls + 1
        /\ used' = used \cup {parentID, childID}
        /\ Returns(<< >>)
        /\ UNCHANGED <<root, released, alive>>

(*************************** playGame ************************************)
S_empty  == << >>
S_blank  == <<32, 9>>
S_abc    == <<97, 98, 99>>
S_neg1   == <<45, 49>>
S_0      == <<48>>
S_pad2   == <<32, 50, 32>>
S_5      == <<53>>
S_big    == <<57,57,57,57,57,57,57,57,57,57,57>>

\* the lines getline may deliver
Lines == {S_empty, S_blank, S_abc, S_neg1, S_0, S_1, S_01, S_pad2, S_3, S_5, S_big}

\* a decimal numeral without its leading zeros
RECURSIVE Canon(_)
Canon(s) == IF Len(s) > 1 /\ Head(s) = 48 THEN Canon(Tail(s)) ELSE s

\* a <= b for decimal numerals without leading zeros
NumLeq(a, b) ==
    \/ Len(a) < Len(b)
    \/ Len(a) = Len(b) /\ ~StrLess(b, a)

RECURSIVE DecValue(_)
DecValue(s) ==
    IF Len(s) = 0 THEN 0
    ELSE 10 * DecValue(SubSeq(s, 1, Len(s) - 1)) + (s[Len(s)] - 48)

\* stoi that saturates at INT_MAX instead of throwing
stoiSaturating(s) ==
    IF NumLeq(Canon(s), S_intmax)
    THEN [thrown |-> FALSE, val |-> DecValue(Canon(s))]
    ELSE [thrown |-> FALSE, val |-> DecValue(S_intmax)]

\* std::stoi on a non-empty all-digit string: the value, or std::out_of_range
\* when it exceeds INT_MAX
stoi(s) ==
    IF NumLeq(Canon(s), S_intmax)
    THEN [thrown |-> FALSE, val |-> DecValue(Canon(s))]
    ELSE [thrown |-> TRUE, val |-> 0]

Emit(kind) == [kind |-> kind, id |-> << >>, text |-> << >>, children |-> << >>]
\* a line carrying text; an option's number travels in the id field
EmitText(kind, n, text) ==
    [kind |-> kind, id |-> n, text |-> text, children |-> << >>]

\* the numbered options of a node: option i shows children[i-1]'s trimmed text
Options(node) ==
    [i \in 1..Len(heap[node].children) |->
        EmitText("Option", <<i>>, trim_copy(heap[heap[node].children[i]].data))]

\* One pass of the loop from its top to the prompt or to the break, at node,
\* after `before` was written: [pc, out].
\* LoopTop of a loop that breaks after the out-of-range notice
LoopTopBreaksOnRange(node, before) ==
    LET text == <<EmitText("Text", << >>, trim_copy(heap[node].data))>>
    IN  IF Len(heap[node].children) = 0 \/ before[1].kind = "OutOfRange"
        THEN [pc  |-> "Terminated",
              out |-> before \o text \o <<Emit("EndOfPath"), Emit("Complete")>>]
        ELSE [pc  |-> "AtNode",
              out |-> before \o text \o <<Emit("Choose")>> \o Options(node)
                        \o <<Emit("Prompt")>>]

LoopTop(node, before) ==
    LET text == <<EmitText("Text", << >>, trim_copy(heap[node].data))>>
    IN  IF Len(heap[node].children) = 0
        THEN [pc  |-> "Terminated",
              out |-> before \o text \o <<Emit("EndOfPath"), Emit("Complete")>>]
        ELSE [pc  |-> "AtNode",
              out |-> before \o text \o <<Emit("Choose")>> \o Options(node)
                        \o <<Emit("Prompt")>>]

PlayGame ==
    /\ alive /\ pc # "AtNode"
    /\ IF root = nullptr
       THEN /\ pc' = "Terminated"
            /\ out' = <<Emit("NoRoot")>>
            /\ UNCHANGED <<current, linesLeft>>
       ELSE /\ current' = root
            /\ pc' = LoopTop(root, <<Emit("Begin")>>).pc
            /\ out' = LoopTop(root, <<Emit("Begin")>>).out
            /\ linesLeft' \in 0..MaxLines
    /\ input' = NoInput
    /\ UNCHANGED <<heap, nodesMap, root, released, alive, last, nCalls, used>>

\* "choice < 1 || static_cast<size_t>(choice) > current->children.size()"
OutOfRange(choice, size) == choice < 1 \/ choice > size

\* ChildIndex that ignores the number chosen
ChildIndexFirst(choice) == 1

\* "current->children[choice - 1]": the position, counted from 1, of the
\* child that choice selects
ChildIndex(choice) == choice

\* Rejected that sends the session back to the root
RejectedToRoot(cur, note) == [moved |-> FALSE, next |-> root, note |-> note]

\* a notice followed by continue: current is not assigned
Rejected(cur, note) == [moved |-> FALSE, next |-> cur, note |-> note]

\* What one line does at node cur: [moved, next, note].
Selection(cur, line) ==
    LET trimmed == trim_copy(line)
    IN  IF Len(trimmed) = 0 THEN Rejected(cur, "NeedNumber")
        ELSE IF ~AllDigits(trimmed) THEN Rejected(cur, "InvalidSelection")
        ELSE IF stoi(trimmed).thrown THEN Rejected(cur, "InvalidNumber")
        ELSE IF OutOfRange(stoi(trimmed).val, Len(heap[cur].children))
             THEN Rejected(cur, "OutOfRange")
        ELSE [moved |-> TRUE,
              next  |-> heap[cur].children[ChildIndex(stoi(trimmed).val)],
              note  |-> "Moved"]

\* RootAfterMove of a loop that walks the member root instead of a local
RootAfterMoveAdvance(next) == next

\* Tree::root after "current = current->children[choice - 1]": the session
\* walks the local variable current, so that root stays
RootAfterMove(next) == root

ReadLine ==
    /\ alive /\ pc = "AtNode" /\ linesLeft > 0
    /\ \E line \in Lines :
        LET s == Selection(current, line)
            top == LoopTop(s.next, <<Emit(s.note)>>)
        IN  /\ current' = s.next
            /\ root' = RootAfterMove(s.next)
            /\ pc' = top.pc
            /\ out' = top.out
            /\ input' = [read |-> "line", line |-> line]
    /\ linesLeft' = linesLeft - 1
    /\ UNCHANGED <<heap, nodesMap, released, alive, last, nCalls, used>>

\* OnReadFailure with continue in place of break
OnReadFailureRetry == [pc |-> "AtNode", out |-> <<Emit("EOF")>>]

\* OnReadFailure that returns without the closing banner
OnReadFailureSilent == [pc |-> "Terminated", out |-> <<Emit("EOF")>>]

\* what the loop does when getline fails
OnReadFailure == [pc |-> "Terminated", out |-> <<Emit("EOF"), Emit("Complete")>>]

ReadEOF ==
    /\ alive /\ pc = "AtNode" /\ linesLeft = 0
    /\ pc' = OnReadFailure.pc
    /\ out' = OnReadFailure.out
    /\ input' = [read |-> "eof", line |-> << >>]
    /\ UNCHANGED <<heap, nodesMap, root, released, alive, last, nCalls, used,
                   current, linesLeft>>

(*************************** printAll ************************************)
\* the ids the enumeration is exercised on
PrintIds == {S_1, S_2, S_01, S_10, S_apple, S_1a, S_llmax, S_llmax1, S_1e19}

\* a long long is kept as its decimal numeral, so that the 64-bit range is exact
LLONG_MAX == S_llmax

\* std::stoll on a non-empty all-digit string, with printAll's catch (...)
\* turning std::out_of_range into LLONG_MAX
stollOrMax(s) == IF NumLeq(Canon(s), LLONG_MAX) THEN Canon(s) ELSE LLONG_MAX

\* the pair printAll builds for id s: (s, numeric value or LLONG_MAX)
NumericKey(s) ==
    [first  |-> s,
     second |-> IF Len(s) > 0 /\ AllDigits(s) THEN stollOrMax(s) ELSE LLONG_MAX]

\* KeyLess without the lexicographic tie-break
KeyLessNoTie(a, b) == a.second # b.second /\ NumLeq(a.second, b.second)

\* the comparator handed to std::sort
KeyLess(a, b) ==
    IF a.second # b.second
    THEN NumLeq(a.second, b.second)
    ELSE StrLess(a.first, b.first)

RECURSIVE InsertSorted(_, _)
InsertSorted(sorted, x) ==
    IF Len(sorted) = 0 THEN <<x>>
    ELSE IF KeyLess(x, Head(sorted)) THEN <<x>> \o sorted
    ELSE <<Head(sorted)>> \o InsertSorted(Tail(sorted), x)

\* std::sort(numericKeys.begin(), numericKeys.end(), comparator)
RECURSIVE Sort(_)
Sort(keys) ==
    IF Len(keys) = 0 THEN << >>
    ELSE InsertSorted(Sort(SubSeq(keys, 1, Len(keys) - 1)), keys[Len(keys)])

\* every sequence that lists each element of S once
RECURSIVE Orders(_)
Orders(S) ==
    IF S = {} THEN {<< >>}
    ELSE UNION {{<<x>> \o o : o \in Orders(S \ {x})} : x \in S}

\* the orders in which iterating nodesMap may visit its ids
IterationOrders == Orders(DOMAIN nodesMap)

Line(kind, id, text, children) ==
    [kind |-> kind, id |-> id, text |-> text, children |-> children]

\* "Node <id>: <data>" and its "Child -> <id>" lines
NodeEntry(id) ==
    LET node == nodesMap[id]
    IN  Line("Node", id, trim_copy(heap[node].data),
             [i \in 1..Len(heap[node].children) |-> heap[heap[node].children[i]].id])

\* Printed without the early return on an empty registry
PrintedNeverEmpty(ids) ==
    LET sorted == Sort([i \in 1..Len(ids) |-> NumericKey(ids[i])])
    IN  <<Line("Banner", << >>, << >>, << >>)>>
        \o [i \in 1..Len(sorted) |-> NodeEntry(sorted[i].first)]
        \o <<Line("Footer", << >>, << >>, << >>)>>

\* everything printAll writes when it visits the registry in order `ids`
Printed(ids) ==
    IF DOMAIN nodesMap = {}
    THEN <<Line("Empty", << >>, << >>, << >>)>>
    ELSE LET sorted == Sort([i \in 1..Len(ids) |-> NumericKey(ids[i])])
         IN  <<Line("Banner", << >>, << >>, << >>)>>
             \o [i \in 1..Len(sorted) |-> NodeEntry(sorted[i].first)]
             \o <<Line("Footer", << >>, << >>, << >>)>>

PrintAll ==
    /\ alive /\ pc # "AtNode"
    /\ \E ids \in IterationOrders : Returns(Printed(ids))
    /\ UNCHANGED <<heap, nodesMap, root, released, alive, last, nCalls, used>>

\* the ids of the node entries the latest step wrote, in the order emitted
PrintedIds ==
    LET nodes == SelectSeq(out, LAMBDA l : l.kind = "Node")
    IN  [i \in 1..Len(nodes) |-> nodes[i].id]

(*************************** ~Tree ***************************************)
\* Deletes of a destructor that also deletes every node through its parents
DeletesThroughParents(a) ==
    Cardinality({id \in DOMAIN nodesMap : nodesMap[id] = a})
    + Cardinality({p \in 1..Len(heap) :
          \E i \in 1..Len(heap[p].children) : heap[p].children[i] = a})

\* how often the destructor's loop deletes address a
Deletes(a) == Cardinality({id \in DOMAIN nodesMap : nodesMap[id] = a})

Destroy ==
    /\ alive /\ pc # "AtNode"
    /\ released' = [a \in 1..Len(heap) |-> Deletes(a)]
    /\ nodesMap' = << >>
    /\ root' = nullptr
    /\ alive' = FALSE
    /\ Returns(<< >>)
    /\ UNCHANGED <<heap, last, nCalls, used>>

(*************************** specifications ******************************)
\* construction, enumeration and teardown
Next ==
    \/ CreateRoot(Ids, Values, MaxCalls)
    \/ AddNode(Ids, Values, MaxCalls)
    \/ PrintAll
    \/ Destroy

Spec == Init /\ [][Next]_vars

\* construction followed by interactive sessions
NextPlay ==
    \/ CreateRoot(Ids, PlayValues, MaxCalls)
    \/ AddNode(Ids, PlayValues, MaxCalls)
    \/ PlayGame
    \/ ReadLine
    \/ ReadEOF

SpecPlay == Init /\ [][NextPlay]_vars

\* sessions on the graphs that MaxFairCalls calls build (self-loops among
\* them), where getline returns once the stream delivers a line or its end
NextPlayFair ==
    \/ CreateRoot(Ids, PlayValues, MaxFairCalls)
    \/ AddNode(Ids, PlayValues, MaxFairCalls)
    \/ PlayGame
    \/ ReadLine
    \/ ReadEOF

FairSpecPlay ==
    Init /\ [][NextPlayFair]_vars /\ WF_vars(ReadLine) /\ WF_vars(ReadEOF)

\* construction followed by read-only use: sessions and enumerations
NextUse ==
    \/ CreateRoot(Ids, PlayValues, MaxCalls)
    \/ AddNode(Ids, PlayValues, MaxCalls)
    \/ PlayGame
    \/ ReadLine
    \/ ReadEOF
    \/ PrintAll

SpecUse == Init /\ [][NextUse]_vars

\* enumeration over ids of every shape
NextPrint ==
    \/ CreateRoot(PrintIds, {S_x}, MaxPrintCalls)
    \/ PrintAll

SpecPrint == Init /\ [][NextPrint]_vars

(*************************** properties **********************************)
Addrs == 1..Len(heap)

\* the addresses of the nodes that carry id
NodesWithId(id) == {a \in Addrs : heap[a].id = id}

\* the addresses the registry owns
Registered == {nodesMap[id] : id \in DOMAIN nodesMap}

\* the addresses in children, as a set
ChildSet(a) == {heap[a].children[i] : i \in 1..Len(heap[a].children)}

\* a step of createRoot or addNode
IsCall(op) == nCalls' = nCalls + 1 /\ last'.op = op

\* C1 (state part): while the Tree lives, the registry holds exactly one node for every id
\* ever passed to createRoot or addNode and none for any other id; findNode
\* returns that node, the same one from call to call, and nullptr for an id
\* never used.
C1_Registry ==
    alive =>
        /\ DOMAIN nodesMap = used
        /\ \A a \in Addrs : heap[a].id \in used
        /\ \A id \in used :
            /\ Cardinality(NodesWithId(id)) = 1
            /\ findNode(id) \in NodesWithId(id)
        /\ \A id \in (Ids \cup PrintIds) \ used : findNode(id) = nullptr

\* C1: the registry property above holds in every state, and findNode(id)
\* returns the same node from one call to the next.
C1_SingleOwner ==
    /\ []C1_Registry
    /\ [][alive' => \A id \in used : findNode(id)' = findNode(id)]_vars

\* two different parents list the same child, and findNode returns that child
C1_Witness ==
    /\ alive
    /\ \E p, q \in Addrs, id \in used :
        /\ p # q
        /\ findNode(id) \in ChildSet(p) \cap ChildSet(q)
        /\ findNode(id) \notin {p, q}

\* C2: no node's children list holds the same child more than once.
C2_NoDuplicateChild ==
    \A a \in Addrs :
        \A i, j \in 1..Len(heap[a].children) :
            i # j => heap[a].children[i] # heap[a].children[j]

\* addNode(p, c, _) was just repeated on the pair of the call before it, or a
\* self-link was just repeated
C2_Witness ==
    /\ alive
    /\ nCalls = 2
    /\ last.op = "addNode"
    /\ last.before = {last.parent, last.id}
    /\ root = nullptr
    /\ nodesMap[last.id] \in ChildSet(nodesMap[last.parent])
    /\ Len(heap[nodesMap[last.id]].children) = IF last.id = last.parent THEN 1 ELSE 0

\* C3 as stated: if c was absent before addNode(p, c, v1), then after
\* addNode(p, c, v1) and addNode(p, c, v2) the payload of c is v1.
C3_FirstWriteWins ==
    [][(/\ last.op = "addNode" /\ last.id \notin last.before
        /\ IsCall("addNode")
        /\ last'.parent = last.parent /\ last'.id = last.id)
       => heap'[nodesMap'[last.id]].data = last.value]_vars

\* C3 amended: as above when p # c; when p = c the node is first made as the
\* missing parent, so that its payload is the default one.
C3_FirstWriteWinsAmended ==
    [][(/\ last.op = "addNode" /\ last.id \notin last.before
        /\ IsCall("addNode")
        /\ last'.parent = last.parent /\ last'.id = last.id)
       => heap'[nodesMap'[last.id]].data =
              IF last.parent = last.id THEN DefaultData ELSE last.value]_vars

\* after addNode(p, c, v1) and addNode(p, c, v2) on a fresh registry, with
\* p # c and v1 # v2: c holds a payload other than v2
C3_Witness ==
    /\ alive
    /\ nCalls = 2
    /\ last.op = "addNode"
    /\ last.parent # last.id
    /\ last.before = {last.parent, last.id}
    /\ root = nullptr
    /\ heap[nodesMap[last.id]].children = << >>
    /\ heap[nodesMap[last.id]].data # last.value
    /\ heap[nodesMap[last.id]].data # DefaultData

\* C4 (state part): while the Tree lives, root (when set) and every entry of every children
\* list is a node of the registry, and no construction call removes a node
\* from the registry.
C4_Closed ==
    alive =>
        /\ root # nullptr => root \in Registered
        /\ \A a \in Addrs : ChildSet(a) \subseteq Registered

\* C4: the closure above holds in every state, and every registry entry
\* survives every step made while the Tree lives.
C4_ReferencesRegistered ==
    /\ []C4_Closed
    /\ [][alive' => \A id \in DOMAIN nodesMap :
                       id \in DOMAIN nodesMap' /\ nodesMap'[id] = nodesMap[id]]_vars

\* the root has a child that was made by the latest call
C4_Witness ==
    /\ alive
    /\ root # nullptr
    /\ last.op = "addNode"
    /\ last.id \notin last.before
    /\ nodesMap[last.id] \in ChildSet(root)

\* C5: createRoot(id, v) makes the node of id the root with payload v, keeps
\* every node of the registry, every children list and every other payload.
C5_CreateRootFrame ==
    [][IsCall("createRoot") =>
        /\ root' = nodesMap'[last'.id]
        /\ heap'[root'].id = last'.id
        /\ heap'[root'].data = last'.value
        /\ \A id \in DOMAIN nodesMap :
              id \in DOMAIN nodesMap' /\ nodesMap'[id] = nodesMap[id]
        /\ \A a \in Addrs :
              /\ heap'[a].children = heap[a].children
              /\ a # root' => heap'[a].data = heap[a].data
        /\ \A a \in (1..Len(heap')) \ Addrs : heap'[a].children = << >>]_vars

\* createRoot was just applied to a node that existed as the child of a node
\* made with the default payload, which it kept
C5_Witness ==
    /\ alive
    /\ last.op = "createRoot"
    /\ last.id \in last.before
    /\ heap[root].data = last.value
    /\ \E a \in Addrs : a # root /\ root \in ChildSet(a) /\ heap[a].data = DefaultData

(*************************** enumeration order ***************************)
\* an id printAll's rule calls numeric: non-empty, decimal digits only
IsNumericId(id) == Len(id) > 0 /\ \A i \in 1..Len(id) : id[i] \in 48..57

\* the order of two ids under the stated rule: numeric ids first, by integer
\* value and then lexicographically; the other ids after them, lexicographically
StatedBefore(a, b) ==
    IF IsNumericId(a) /\ IsNumericId(b)
    THEN IF Canon(a) = Canon(b) THEN StrLess(a, b)
         ELSE NumLeq(Canon(a), Canon(b))
    ELSE IF IsNumericId(a) # IsNumericId(b) THEN IsNumericId(a)
    ELSE StrLess(a, b)

\* C6: printAll emits the ids in the stated order: every numeric id before
\* every other id, numeric ids by ascending integer value (lexicographic on
\* ties), the other ids lexicographically.
C6_StatedOrder ==
    \A i, j \in 1..Len(PrintedIds) :
        i < j => StatedBefore(PrintedIds[i], PrintedIds[j])

(*************************** sessions ************************************)
\* a step in which getline delivered a line
IsReadLine == pc = "AtNode" /\ input'.read = "line" /\ linesLeft' = linesLeft - 1

\* a step in which getline failed
IsReadEOF == pc = "AtNode" /\ input'.read = "eof"

\* the number of choices at the node the session stands at
Choices == Len(heap[current].children)

\* the decimal numeral of a number from 1 to 9
Numeral(k) == <<48 + k>>

\* the line trims to a decimal number k, with or without leading zeros
TrimsTo(line, k) ==
    /\ IsNumericId(trim_copy(line))
    /\ Canon(trim_copy(line)) = Numeral(k)

\* the line selects one of the n choices
ValidLine(line, n) == \E k \in 1..n : TrimsTo(line, k)

Kinds(text) == {text[i].kind : i \in 1..Len(text)}

\* C7: at a node with children, a line that is empty after trimming, holds a
\* non-digit, or is a number outside 1..n produces a notice, leaves the
\* current node unchanged and re-prompts.
C7_InvalidLineStays ==
    [][(IsReadLine /\ ~ValidLine(input'.line, Choices)) =>
        /\ current' = current
        /\ pc' = "AtNode"
        /\ out'[1].kind \in {"NeedNumber", "InvalidSelection", "InvalidNumber",
                             "OutOfRange"}
        /\ out'[Len(out')].kind = "Prompt"]_vars

\* the stream's last line, "5", was read at the root, which has two children:
\* the session still stands at the root and prompts
C7_Witness ==
    /\ pc = "AtNode"
    /\ linesLeft = 0
    /\ input = [read |-> "line", line |-> S_5]
    /\ out[1].kind = "OutOfRange"
    /\ current # nullptr /\ Choices = 2
    /\ current = root

\* C8: at a node with n children, a line that trims to k in 1..n moves the
\* session to the k-th child; a line moves it to no other node; when that
\* child has no children the end-of-path notice is written and the session
\* terminates, and otherwise the session prompts again.
C8_ValidLineMoves ==
    [][IsReadLine =>
        /\ \A k \in 1..Choices : TrimsTo(input'.line, k) =>
              /\ current' = heap[current].children[k]
              /\ out'[1].kind = "Moved"
              /\ IF heap[current'].children = << >>
                 THEN /\ pc' = "Terminated"
                      /\ {"EndOfPath", "Complete"} \subseteq Kinds(out')
                 ELSE /\ pc' = "AtNode"
                      /\ "EndOfPath" \notin Kinds(out')
        /\ current' # current => \E k \in 1..Choices :
              TrimsTo(input'.line, k) /\ current' = heap[current].children[k]]_vars

\* " 2 " was read at the root, which has two children, and the session ended at
\* the second of them, a leaf
C8_Witness ==
    /\ pc = "Terminated"
    /\ input = [read |-> "line", line |-> S_pad2]
    /\ "EndOfPath" \in Kinds(out)
    /\ Len(heap[root].children) = 2
    /\ current = heap[root].children[2]
    /\ current # heap[root].children[1]

\* C9: a session whose input ends reaches Terminated, on any graph and for any
\* lines; a failed read writes the error notice and ends the session.
C9_Terminates ==
    /\ [][IsReadEOF => pc' = "Terminated" /\ out'[1].kind = "EOF"]_vars
    /\ (pc = "AtNode") ~> (pc = "Terminated")

\* the input ended while the session stood at a node that is its own child
C9_Witness ==
    /\ pc = "Terminated"
    /\ input.read = "eof"
    /\ out[1].kind = "EOF"
    /\ current \in ChildSet(current)

\* C10: ~Tree releases every node exactly once, and nothing is released before.
C10_ReleasedOnce ==
    IF alive
    THEN released = << >>
    ELSE /\ DOMAIN released = Addrs
         /\ \A a \in Addrs : released[a] = 1
         /\ nodesMap = << >> /\ root = nullptr

\* a Tree was destroyed in which one node was the child of two other nodes
\* and of itself
C10_Witness ==
    /\ ~alive
    /\ \E p, q, c \in Addrs :
        /\ Cardinality({p, q, c}) = 3
        /\ c \in ChildSet(p) \cap ChildSet(q) \cap ChildSet(c)

(*************************** read-only use *******************************)
\* a step of playGame or printAll: no construction call, no teardown
IsUse == nCalls' = nCalls /\ alive /\ alive'

\* C11: playGame and printAll leave the registry's ids and nodes, the root,
\* every payload and every children list as they were.
C11_UseIsReadOnly ==
    [][IsUse => /\ nodesMap' = nodesMap
                /\ root' = root
                /\ heap' = heap]_vars

\* a session has moved away from the root
C11_Witness ==
    /\ alive
    /\ pc \in {"AtNode", "Terminated"}
    /\ input.read = "line"
    /\ current # root
    /\ out[1].kind = "Moved"

\* what printAll may write in the present state, over every iteration order
Listings == {Printed(ids) : ids \in IterationOrders}

\* the positions of the entries of id in a listing
EntriesOf(listing, id) ==
    {i \in 1..Len(listing) : listing[i].kind = "Node" /\ listing[i].id = id}

\* C12: whatever order the registry is iterated in, printAll writes the same
\* listing, and every id of the registry has exactly one entry in it.
C12_OrderIndependent ==
    alive =>
        /\ Cardinality(Listings) = 1
        /\ out # << >> /\ pc = "idle" => out \in Listings
        /\ \A listing \in Listings :
            /\ \A id \in DOMAIN nodesMap : Cardinality(EntriesOf(listing, id)) = 1
            /\ \A i \in 1..Len(listing) :
                  listing[i].kind = "Node" => listing[i].id \in DOMAIN nodesMap

\* printAll has listed three ids, two of which, "01" and "1", have the same
\* numeric value
C12_Witness ==
    /\ alive
    /\ Len(PrintedIds) = 3
    /\ \E i, j \in 1..3 : PrintedIds[i] = S_01 /\ PrintedIds[j] = S_1

\* a numeric id whose value exceeds the largest long long
Overflows(id) == IsNumericId(id) /\ ~NumLeq(Canon(id), S_llmax)

\* C13: an overflowing numeric id gets LLONG_MAX as its sort key and is
\* listed after every numeric id that parses, the one whose value is
\* LLONG_MAX included; overflowing ids are listed in lexicographic order.
C13_OverflowLast ==
    \A i, j \in 1..Len(PrintedIds) :
        LET a == PrintedIds[i]
            b == PrintedIds[j]
        IN  /\ Overflows(a) => NumericKey(a).second = LLONG_MAX
            /\ Overflows(a) /\ IsNumericId(b) /\ ~Overflows(b) => j < i
            /\ Overflows(a) /\ Overflows(b) /\ i < j => StrLess(a, b)

(*************************** anchors *************************************)
\* The node of id exists and still holds the default payload.  createRoot and
\* addNode's child are given a value of Values, none of which is the default
\* payload, so such a node was made by addNode as a missing parent.
IsAnchor(id) == id \in DOMAIN nodesMap /\ heap[nodesMap[id]].data = DefaultData

\* the payload of the node of the latest call's id, after the call
PayloadAfter == heap'[nodesMap'[last'.id]].data

\* C14 as stated: a node made as a missing parent gets its payload from a
\* later addNode that names it as the child, as it does from a later
\* createRoot.
C14_AnchorFilledByChild ==
    [][/\ IsCall("createRoot") /\ IsAnchor(last'.id) => PayloadAfter = last'.value
       /\ IsCall("addNode") /\ IsAnchor(last'.id) => PayloadAfter = last'.value]_vars

\* C14 amended: a later createRoot sets the payload; a later addNode that
\* names the node as the child leaves it the default payload.
C14_AnchorFilledByRootOnly ==
    [][/\ IsCall("createRoot") /\ IsAnchor(last'.id) => PayloadAfter = last'.value
       /\ IsCall("addNode") /\ IsAnchor(last'.id) => PayloadAfter = DefaultData]_vars

\* addNode has just named as its child a node of another id that was made as
\* a missing parent, and the node still holds the default payload
C14_Witness ==
    /\ alive
    /\ last.op = "addNode"
    /\ last.parent # last.id
    /\ last.id \in last.before
    /\ last.value # DefaultData
    /\ IsAnchor(last.id)
    /\ Len(heap[nodesMap[last.id]].children) > 0

(*************************** the end of a session ************************)
\* C15 as stated: every session that reaches Terminated writes the completion
\* notice, whether root was unset, a childless node was reached or the input
\* ended.
C15_TerminatedCompletes == pc = "Terminated" => "Complete" \in Kinds(out)

\* C15 amended: a session that reaches Terminated from a node, at a childless
\* node or at the end of the input, ends its output with the completion
\* notice; a session started with root unset writes the no-root notice alone.
C15_TerminatedCompletesFromNode ==
    pc = "Terminated" =>
        IF root = nullptr
        THEN out = <<Emit("NoRoot")>>
        ELSE /\ out[Len(out)].kind = "Complete"
             /\ "NoRoot" \notin Kinds(out)

\* the input ended at a prompt of a node below the root, and the session is
\* over
C15_Witness ==
    /\ pc = "Terminated"
    /\ input.read = "eof"
    /\ root # nullptr /\ current # root
    /\ Choices > 0
    /\ "Complete" \in Kinds(out)

(*************************** numbers outside the choices *****************)
\* the decimal numeral that the line trims to, without leading zeros
LineNumeral(line) == Canon(trim_copy(line))

\* the line is all digits after trimming and its number is below 1 or above n
OutsideLine(line, n) ==
    /\ IsNumericId(trim_copy(line))
    /\ \/ LineNumeral(line) = S_0
       \/ ~NumLeq(LineNumeral(line), Numeral(n))

\* C17 as stated: an all-digit line whose number is below 1 or above the
\* number of children gets the out-of-range notice and leaves the current
\* node, numbers too large for int included.
C17_OutsideIsOutOfRange ==
    [][(IsReadLine /\ OutsideLine(input'.line, Choices)) =>
        /\ out'[1].kind = "OutOfRange"
        /\ current' = current
        /\ pc' = "AtNode"]_vars

\* C17 amended: such a line gets the out-of-range notice when its number fits
\* int and the invalid-number notice when it does not; the current node stays
\* in both cases.
C17_OutsideIsRejected ==
    [][(IsReadLine /\ OutsideLine(input'.line, Choices)) =>
        /\ out'[1].kind = IF NumLeq(LineNumeral(input'.line), S_intmax)
                          THEN "OutOfRange" ELSE "InvalidNumber"
        /\ current' = current
        /\ pc' = "AtNode"]_vars

\* "99999999999" was read at a node below the root: the session stays there
\* with the invalid-number notice
C17_Witness ==
    /\ pc = "AtNode"
    /\ input = [read |-> "line", line |-> S_big]
    /\ out[1].kind = "InvalidNumber"
    /\ current # root
    /\ Choices > 0

(*************************** the empty listing ***************************)
\* the latest step was a printAll call
JustPrinted == alive /\ pc = "idle" /\ out # << >>

\* C16: printAll writes the empty indicator alone, with no banner and no node
\* entry, exactly when no createRoot or addNode call has been made; after any
\* construction call it writes a banner and at least one node entry and never
\* the empty indicator.
C16_EmptyIffNoCalls ==
    JustPrinted =>
        /\ out = <<Line("Empty", << >>, << >>, << >>)>> <=> nCalls = 0
        /\ "Empty" \in Kinds(out) <=> nCalls = 0
        /\ nCalls > 0 =>
              /\ out[1].kind = "Banner"
              /\ \E i \in 1..Len(out) : out[i].kind = "Node"

\* printAll has listed the two nodes that a single addNode call made
C16_Witness ==
    /\ JustPrinted
    /\ nCalls = 1
    /\ last.op = "addNode"
    /\ Kinds(out) = {"Banner", "Node", "Footer"}
    /\ Len(out) = 4

(*************************** the walk of a session ***********************)
\* the nodes that child edges lead to from the nodes of set, those included
RECURSIVE ReachFrom(_)
ReachFrom(set) ==
    LET next == set \cup UNION {ChildSet(a) : a \in set}
    IN  IF next = set THEN set ELSE ReachFrom(next)

\* a session that was started with root set is at a node or has ended
InSession == pc \in {"AtNode", "Terminated"} /\ root # nullptr

\* C18 (state part): the current node of a session started with root set is
\* reachable from root along child edges.
C18_CurrentReachable == InSession => current \in ReachFrom({root})

\* C18: a session started with root set leaves AtNode only when a line has
\* taken it to a childless node or when a read has failed; no line ends it at
\* a node with children; and its current node is always reachable from root
\* along child edges.
C18_LeavesOnlyAtLeafOrEOF ==
    /\ []C18_CurrentReachable
    /\ [][(pc = "AtNode" /\ pc' # "AtNode") =>
            /\ pc' = "Terminated"
            /\ \/ IsReadEOF /\ current' = current
               \/ IsReadLine /\ heap[current'].children = << >>]_vars
    /\ [][(IsReadLine /\ heap[current'].children # << >>) => pc' = "AtNode"]_vars

\* two lines have taken the session from the root through a child to a
\* childless node that is not a child of the root, where it ended
C18_Witness ==
    /\ InSession
    /\ pc = "Terminated"
    /\ input.read = "line"
    /\ linesLeft = 0
    /\ current \notin ChildSet(root) \cup {root}
    /\ current \in ReachFrom({root})
    /\ heap[current].children = << >>

(*************************** the frame of addNode ************************)
\* C19: addNode(p, c, v) adds node p with the default payload when p is
\* absent, adds node c with payload v when c is then absent, and appends c to
\* the end of p's children when it is not among them; root, the registry's
\* other entries, every existing payload, the children of every node but p
\* and the order of p's existing children stay as they were.
C19_AddNodeFrame ==
    [][IsCall("addNode") =>
        LET p == last'.parent
            c == last'.id
            pAbsent == p \notin DOMAIN nodesMap
            cAbsent == c \notin DOMAIN nodesMap \cup {p}
            before == IF pAbsent THEN << >> ELSE heap[nodesMap[p]].children
            after == heap'[nodesMap'[p]].children
            fresh == (1..Len(heap')) \ Addrs
        IN  /\ root' = root
            /\ DOMAIN nodesMap' = DOMAIN nodesMap \cup {p, c}
            /\ \A id \in DOMAIN nodesMap : nodesMap'[id] = nodesMap[id]
            /\ fresh = {nodesMap'[id] : id \in {p, c} \ DOMAIN nodesMap}
            /\ \A a \in Addrs :
                  /\ heap'[a].id = heap[a].id
                  /\ heap'[a].data = heap[a].data
                  /\ a # nodesMap'[p] => heap'[a].children = heap[a].children
            /\ pAbsent => heap'[nodesMap'[p]].data = DefaultData
            /\ cAbsent => /\ heap'[nodesMap'[c]].data = last'.value
                          /\ heap'[nodesMap'[c]].children = << >>
            /\ after = IF \E i \in 1..Len(before) : before[i] = nodesMap'[c]
                       THEN before
                       ELSE Append(before, nodesMap'[c])]_vars

\* addNode has just linked a node that had a payload of its own to a parent
\* that had another child: the node is the parent's second child and has kept
\* its payload
C19_Witness ==
    /\ alive
    /\ last.op = "addNode"
    /\ {last.parent, last.id} \subseteq last.before
    /\ last.parent # last.id
    /\ Len(heap[nodesMap[last.parent]].children) = 2
    /\ heap[nodesMap[last.parent]].children[2] = nodesMap[last.id]
    /\ heap[nodesMap[last.id]].data \notin {last.value, DefaultData}

====
